---- MODULE Spec2Model ----
(***************************************************************************)
(* Model of the goal-tracker chatbot of src/app.js: the Persistence Store  *)
(* (User and Goal collections), the handlers of inbound webhook events     *)
(* (receivedMessage, receivedPostback) and the store callbacks they chain. *)
(*                                                                         *)
(* Every store call is asynchronous.  A handler runs its synchronous part, *)
(* which issues store calls; each issued call is a pending task.  A step   *)
(* of the model executes one pending call on the store and then runs its   *)
(* callback, which may issue further calls.  The pending calls of an event *)
(* complete in any order; the specifications deliver one event at a time.  *)
(*                                                                         *)
(* Numbers that hold times are kept in units of 3600 so that they fit the  *)
(* integers of the checker: getTime() (milliseconds) is 1000 * hours and   *)
(* getTime() / 1000 (seconds) is hours.                                    *)
(***************************************************************************)
EXTENDS Integers, Sequences, FiniteSets, Bags, TLC

VARIABLES
    users,      \* User collection: per sender id, the records with that name
    goals,      \* Goal collection: goal id -> record, live goals only
    nextId,     \* next fresh goal id (ObjectId)
    pending,    \* bag of issued store calls (and timers) not yet completed
    now,        \* wall clock, in ticks of 12 hours
    crashed,    \* a callback threw (TypeError on a null result)
    last,       \* the call completed (or the event received) by the last step
    ev          \* the last received event with the store as it was then

vars == <<users, goals, nextId, pending, now, crashed, last, ev>>

(***************************************************************************)
(* Bounds of the model.                                                    *)
(***************************************************************************)
MaxGoalIds == 2       \* goal ids allocated in a run
MaxTick == 2          \* last clock tick of a run of Spec
MaxStreakTick == 16   \* last clock tick of a run of SpecStreak
MaxLog == 1           \* log entries per goal
MaxTotal == 2         \* progress events per goal
MaxCount == 2         \* a naming text is received while numGoals is less
MaxDebt == 1          \* a confirmation is received while numGoals > -MaxDebt
MaxOver == 2          \* SpecCap: a naming text is received while numGoals < 5 + MaxOver
MaxLogEntries == 2    \* SpecLog: a log text is received while the log is shorter
MaxInFlight == 2      \* SpecFirst: a message is received while at most so many calls are pending

Senders == {1}
GoalIds == 1 .. MaxGoalIds

(***************************************************************************)
(* Texts are sequences of characters.                                      *)
(***************************************************************************)
LowerOf ==
    [A |-> "a", B |-> "b", C |-> "c", D |-> "d", E |-> "e", F |-> "f", I |-> "i"]
UpperOf ==
    [a |-> "A", b |-> "B", c |-> "C", d |-> "D", e |-> "E", f |-> "F", i |-> "I"]

toLowerCaseChar(c) == IF c \in DOMAIN LowerOf THEN LowerOf[c] ELSE c
toUpperCaseChar(c) == IF c \in DOMAIN UpperOf THEN UpperOf[c] ELSE c

\* toLowerCase left out: the text is used as typed
toLowerCase_id(text) == text

\* String.prototype.toLowerCase
toLowerCase(text) == [i \in 1 .. Len(text) |-> toLowerCaseChar(text[i])]

\* messageText.charAt(0).toUpperCase() + messageText.slice(1)
Capitalize(text) ==
    IF Len(text) = 0 THEN text
    ELSE <<toUpperCaseChar(text[1])>> \o SubSeq(text, 2, Len(text))

Repeat(c, n) == [i \in 1 .. n |-> c]

\* The limits on a goal name and on a log text.
MaxNameLen == 100
MaxLogLen == 96

(***************************************************************************)
(* The clock: Date.getTime() and Date.getDay().                            *)
(***************************************************************************)
EpochHours == 17111 * 24     \* tick 0 is 2016-11-06 00:00, a Sunday

Hours(t) == EpochHours + 12 * t
getTime(t) == 1000 * Hours(t)
getDay(t) == ((Hours(t) \div 24) + 4) % 7
getDate(t) == Hours(t) \div 24

(***************************************************************************)
(* Records of the store.                                                   *)
(***************************************************************************)
StatusNull == [tag |-> "null", id |-> 0]
StatusNaming == [tag |-> "naming_goal", id |-> 0]
StatusLogging(id) == [tag |-> "logging_goal", id |-> id]

NewUser == [status |-> StatusNull, numGoals |-> 0, finished |-> <<>>]

NewGoal(senderID, messageText, t) ==
    [user |-> senderID, name |-> messageText, streak |-> 0, log |-> <<>>,
     lastUpdate |-> getTime(t) \div 1000, lastDay |-> getDay(t), total |-> 0]

\* models.User.findOne({name: senderID}): the first record, or null
HasUser(s) == users[s] # <<>>
FindUser(s) == users[s][1]

\* models.User.update({name: senderID}, {$set: ...}): the first record only
UpdateUser(s, f, v) ==
    IF HasUser(s)
    THEN [users EXCEPT ![s] = <<[@[1] EXCEPT ![f] = v]>> \o Tail(@)]
    ELSE users

Live == DOMAIN goals
GoalsOf(s) == {g \in Live : goals[g].user = s}

\* gmodels.Goal.findOne({user: senderID, name: messageText})
FindByName(s, name) == {g \in GoalsOf(s) : goals[g].name = name}

(***************************************************************************)
(* Pending store calls.  A task names the call (pc) and carries what its   *)
(* callback closes over.                                                   *)
(***************************************************************************)
NoTask ==
    [pc |-> "none", s |-> 0, id |-> 0, txt |-> <<>>, ty |-> "", n |-> 0,
     tot |-> 0, t |-> 0, ok |-> TRUE, lst |-> <<>>, say |-> <<>>]

Task(pc, s) == [NoTask EXCEPT !.pc = pc, !.s = s]
TaskG(pc, s, id) == [NoTask EXCEPT !.pc = pc, !.s = s, !.id = id]

NoEvent == [kind |-> "none", s |-> 0, id |-> 0, txt |-> <<>>, t |-> 0,
            users0 |-> [s \in Senders |-> <<>>], goals0 |-> <<>>]

Event(kind, s, id, txt) ==
    [kind |-> kind, s |-> s, id |-> id, txt |-> txt, t |-> now,
     users0 |-> users, goals0 |-> goals]

Quiescent == BagCardinality(pending) = 0

\* The step completes task t, its callback issues the calls in new and sends
\* the replies say (sendTextMessage, sendHome, ... in order).
Done(t, new, say) ==
    /\ pending' = (pending (-) SetToBag({t})) (+) SetToBag(new)
    /\ last' = [t EXCEPT !.say = say]

\* The callback of task t throws.
Crash(t) ==
    /\ crashed' = TRUE
    /\ pending' = EmptyBag
    /\ last' = t
    /\ UNCHANGED <<users, goals, nextId, now, ev>>

Ready(t) == ~crashed /\ BagIn(t, pending)

(***************************************************************************)
(* receivedMessage: create new user or identify user.                      *)
(***************************************************************************)
\* models.User.findOne({name: senderID}) of receivedMessage
rm_findUser(t) ==
    /\ Ready(t) /\ t.pc = "rm_findUser"
    /\ Done(t, IF HasUser(t.s) THEN {} ELSE {Task("rm_saveUser", t.s)}, <<>>)
    /\ UNCHANGED <<users, goals, nextId, now, crashed, ev>>

\* newUser.save, then the welcome text and the home menu
rm_saveUser(t) ==
    /\ Ready(t) /\ t.pc = "rm_saveUser"
    /\ users' = [users EXCEPT ![t.s] = Append(@, NewUser)]
    /\ Done(t, {}, <<"welcome", "home">>)
    /\ UNCHANGED <<goals, nextId, now, crashed, ev>>

(***************************************************************************)
(* Streak Engine.                                                          *)
(***************************************************************************)
\* diffTime < 86400 * 2, with diffTime = (time - goal.lastUpdate) / 1000
Within48h(goal, t) ==
    getTime(t) - goal.lastUpdate < (86400 * 2 * 1000) \div 3600

\* streak without the wrap from Saturday (6) to Sunday (0)
streak_nowrap(goal, t) ==
    LET diffDay == getDay(t) - goal.lastDay
    IN  IF diffDay = 1 /\ Within48h(goal, t) THEN "add"
        ELSE IF diffDay = 0 THEN "keep"
        ELSE "reset"

\* streak(senderID, goal): "add", "keep" or "reset"
streak(goal, t) ==
    LET diffDay == getDay(t) - goal.lastDay
    IN  IF (diffDay = 1 \/ diffDay = -6) /\ Within48h(goal, t) THEN "add"
        ELSE IF diffDay = 0 THEN "keep"
        ELSE "reset"

\* inc is 1 whatever the type
Inc_one(type) == 1

\* var inc of streakProcess
Inc(type) == IF type = "prog" THEN 1 ELSE 0

Max(a, b) == IF a >= b THEN a ELSE b

\* a reset takes one off instead of starting again
NewStreak_neg(res, inc, result) ==
    IF res = "add" THEN result.streak + inc
    ELSE IF res = "keep" THEN Max(inc, result.streak)
    ELSE inc - 1

\* a same-day event adds to the streak like a next-day event
NewStreak_add(res, inc, result) ==
    IF res = "add" \/ res = "keep" THEN result.streak + inc
    ELSE inc

\* a reset takes one day off the streak instead of starting again
NewStreak_decay(res, inc, result) ==
    IF res = "add" THEN result.streak + inc
    ELSE IF res = "keep" THEN Max(inc, result.streak)
    ELSE Max(0, result.streak - 1) + inc

\* a next-day event counts twice
NewStreak_double(res, inc, result) ==
    IF res = "add" THEN result.streak + 2 * inc
    ELSE IF res = "keep" THEN Max(inc, result.streak)
    ELSE inc

\* var newStreak of streakProcess
NewStreak(res, inc, result) ==
    IF res = "add" THEN result.streak + inc
    ELSE IF res = "keep" THEN Max(inc, result.streak)
    ELSE inc

\* the total is written back as it was read
NewTotal_same(inc, result) == result.total

\* var total of streakProcess
NewTotal(inc, result) == result.total + inc

\* "else if (type == "prog")": a reset writes the streak alone
StreakUpdates_elseif(t, result, res) ==
    LET inc == Inc(t.ty)
        newStreak == NewStreak(res, inc, result)
    IN  IF res = "reset"
        THEN {[TaskG("sp_setStreak", t.s, t.id) EXCEPT !.ty = t.ty, !.n = newStreak]}
        ELSE IF t.ty = "prog"
        THEN {[TaskG("sp_setAll", t.s, t.id) EXCEPT
                  !.ty = t.ty, !.n = newStreak, !.t = t.t,
                  !.tot = NewTotal(inc, result)]}
        ELSE {}

\* The updates the findOne callback of streakProcess issues.
StreakUpdates(t, result, res) ==
    LET inc == Inc(t.ty)
        newStreak == NewStreak(res, inc, result)
    IN  (IF res = "reset"
         THEN {[TaskG("sp_setStreak", t.s, t.id) EXCEPT !.ty = t.ty, !.n = newStreak]}
         ELSE {})
        \cup
        (IF t.ty = "prog"
         THEN {[TaskG("sp_setAll", t.s, t.id) EXCEPT
                   !.ty = t.ty, !.n = newStreak, !.t = t.t,
                   !.tot = NewTotal(inc, result)]}
         ELSE {})

\* streakProcess(id, type, senderID): the call it issues; d = new Date()
StreakProcess(id, type, senderID) ==
    [TaskG("sp_find", senderID, id) EXCEPT !.ty = type, !.t = now]

\* gmodels.Goal.findOne({"_id": ObjectId(id)}) of streakProcess
sp_find(t) ==
    /\ Ready(t) /\ t.pc = "sp_find"
    /\ IF t.id \in Live
       THEN /\ Done(t, StreakUpdates(t, goals[t.id], streak(goals[t.id], now)), <<>>)
            /\ UNCHANGED <<users, goals, nextId, now, crashed, ev>>
       ELSE Crash(t)

\* gmodels.Goal.update({"_id": ObjectId(id)}, {$set: {streak: newStreak}})
sp_setStreak(t) ==
    /\ Ready(t) /\ t.pc = "sp_setStreak"
    /\ goals' = IF t.id \in Live
                THEN [goals EXCEPT ![t.id].streak = t.n]
                ELSE goals
    /\ Done(t, {}, <<>>)
    /\ UNCHANGED <<users, nextId, now, crashed, ev>>

\* the update adds 1 to the stored total ($inc) instead of setting it
sp_setAll_inc(t) ==
    /\ Ready(t) /\ t.pc = "sp_setAll"
    /\ goals' = IF t.id \in Live
                THEN [goals EXCEPT ![t.id].streak = t.n,
                                   ![t.id].lastUpdate = getTime(t.t),
                                   ![t.id].lastDay = getDay(t.t),
                                   ![t.id].total = @ + 1]
                ELSE goals
    /\ Done(t, {}, <<>>)
    /\ UNCHANGED <<users, nextId, now, crashed, ev>>

\* gmodels.Goal.update(..., {$set: {streak, lastUpdate, lastDay, total}})
sp_setAll(t) ==
    /\ Ready(t) /\ t.pc = "sp_setAll"
    /\ goals' = IF t.id \in Live
                THEN [goals EXCEPT ![t.id].streak = t.n,
                                   ![t.id].lastUpdate = getTime(t.t),
                                   ![t.id].lastDay = getDay(t.t),
                                   ![t.id].total = t.tot]
                ELSE goals
    /\ Done(t, {}, <<>>)
    /\ UNCHANGED <<users, nextId, now, crashed, ev>>

(***************************************************************************)
(* New goal: makeGoal and nameGoal.                                        *)
(***************************************************************************)
MaxGoals == 5

\* models.User.findOne of makeGoal
mg_find(t) ==
    /\ Ready(t) /\ t.pc = "mg_find"
    /\ IF ~HasUser(t.s) THEN Crash(t)
       ELSE /\ IF FindUser(t.s).numGoals = MaxGoals
               THEN Done(t, {}, <<"max_goals", "home">>)
               ELSE Done(t, {Task("mg_update", t.s)}, <<>>)
            /\ UNCHANGED <<users, goals, nextId, now, crashed, ev>>

\* models.User.update(..., {$set: {status: 'naming_goal'}}) of makeGoal
mg_update(t) ==
    /\ Ready(t) /\ t.pc = "mg_update"
    /\ users' = UpdateUser(t.s, "status", StatusNaming)
    /\ Done(t, {}, <<"ask_name">>)
    /\ UNCHANGED <<goals, nextId, now, crashed, ev>>

\* nameGoal without its "Update Goal Count" block
NameGoalCalls_nocount(senderID, messageText) ==
    LET name == Capitalize(messageText)
    IN  IF Len(name) > MaxNameLen THEN {}
        ELSE {[Task("ng_findGoal", senderID) EXCEPT !.txt = name]}

\* nameGoal(senderID, messageText): the calls its synchronous part issues
NameGoalCalls(senderID, messageText) ==
    LET name == Capitalize(messageText)
    IN  IF Len(name) > MaxNameLen THEN {}
        ELSE {[Task("ng_findGoal", senderID) EXCEPT !.txt = name],
              Task("ng_findUser", senderID)}

NameGoalSay(messageText) ==
    IF Len(Capitalize(messageText)) > MaxNameLen THEN <<"name_too_long">> ELSE <<>>

\* gmodels.Goal.findOne({user: senderID, name: messageText}) of nameGoal
ng_findGoal(t) ==
    /\ Ready(t) /\ t.pc = "ng_findGoal"
    /\ IF FindByName(t.s, t.txt) # {}
       THEN Done(t, {}, <<"name_exists">>)
       ELSE Done(t, {[Task("ng_save", t.s) EXCEPT !.txt = t.txt, !.t = now]}, <<>>)
    /\ UNCHANGED <<users, goals, nextId, now, crashed, ev>>

\* newGoal.save
ng_save(t) ==
    /\ Ready(t) /\ t.pc = "ng_save"
    /\ goals' = goals @@ (nextId :> NewGoal(t.s, t.txt, t.t))
    /\ nextId' = nextId + 1
    /\ Done(t, {Task("ng_setStatus", t.s)}, <<>>)
    /\ UNCHANGED <<users, now, crashed, ev>>

\* models.User.update(..., {$set: {status: 'null'}}) of nameGoal
ng_setStatus(t) ==
    /\ Ready(t) /\ t.pc = "ng_setStatus"
    /\ users' = UpdateUser(t.s, "status", StatusNull)
    /\ Done(t, {}, <<"goal_added", "home">>)
    /\ UNCHANGED <<goals, nextId, now, crashed, ev>>

\* models.User.findOne of nameGoal ("Update Goal Count")
ng_findUser(t) ==
    /\ Ready(t) /\ t.pc = "ng_findUser"
    /\ IF ~HasUser(t.s) THEN Crash(t)
       ELSE /\ Done(t, {[Task("ng_updateCount", t.s) EXCEPT
                            !.n = FindUser(t.s).numGoals + 1]}, <<>>)
            /\ UNCHANGED <<users, goals, nextId, now, crashed, ev>>

\* models.User.update(..., {$set: {numGoals: result.numGoals + 1}})
ng_updateCount(t) ==
    /\ Ready(t) /\ t.pc = "ng_updateCount"
    /\ users' = UpdateUser(t.s, "numGoals", t.n)
    /\ Done(t, {}, <<"ask_name">>)
    /\ UNCHANGED <<goals, nextId, now, crashed, ev>>

(***************************************************************************)
(* Adding a goal log: logGoal.                                             *)
(***************************************************************************)
LogEntry(t, text) == [date |-> getDate(t), text |-> text]

\* logGoal without the check of the length of the text
LogGoalCalls_nolimit(senderID, id, text) ==
    {[TaskG("lg_find", senderID, id) EXCEPT !.txt = text, !.t = now]}

LogGoalCalls(senderID, id, text) ==
    IF Len(text) > MaxLogLen THEN {}
    ELSE {[TaskG("lg_find", senderID, id) EXCEPT !.txt = text, !.t = now]}

LogGoalSay(text) == IF Len(text) > MaxLogLen THEN <<"log_too_long">> ELSE <<>>

\* gmodels.Goal.findOne of logGoal; oldLog.unshift(...)
lg_find(t) ==
    /\ Ready(t) /\ t.pc = "lg_find"
    /\ IF t.id \notin Live THEN Crash(t)
       ELSE /\ Done(t, {[TaskG("lg_update", t.s, t.id) EXCEPT
                            !.lst = <<LogEntry(t.t, t.txt)>> \o goals[t.id].log]},
                    <<>>)
            /\ UNCHANGED <<users, goals, nextId, now, crashed, ev>>

\* gmodels.Goal.update(..., {$set: {log: oldLog}})
lg_update(t) ==
    /\ Ready(t) /\ t.pc = "lg_update"
    /\ goals' = IF t.id \in Live THEN [goals EXCEPT ![t.id].log = t.lst] ELSE goals
    /\ Done(t, {Task("lg_setStatus", t.s)}, <<>>)
    /\ UNCHANGED <<users, nextId, now, crashed, ev>>

\* models.User.update(..., {$set: {status: 'null'}}) of logGoal, sendMotivation
lg_setStatus(t) ==
    /\ Ready(t) /\ t.pc = "lg_setStatus"
    /\ users' = UpdateUser(t.s, "status", StatusNull)
    /\ Done(t, {}, <<"log_added", "motivation">>)
    /\ UNCHANGED <<goals, nextId, now, crashed, ev>>

(***************************************************************************)
(* receivedMessage: message texts.                                         *)
(***************************************************************************)
\* The words of the "Standard cases" switch.
WordImage == <<"i", "m", "a", "g", "e">>
WordGeneric == <<"g", "e", "n", "e", "r", "i", "c">>
WordTest == <<"t", "e", "s", "t">>

\* every text is answered with the home menu
IdleReply_home(messageText) == "home"

\* switch (messageText) of the status 'null': the reply sent
IdleReply(messageText) ==
    IF messageText = WordImage THEN "image"
    ELSE IF messageText = WordGeneric THEN "generic"
    ELSE IF messageText = WordTest THEN "test"
    ELSE "home"

\* models.User.findOne of the "Check status" branch
txt_findUser(t) ==
    /\ Ready(t) /\ t.pc = "txt_findUser"
    /\ IF ~HasUser(t.s) THEN Done(t, {}, <<>>)
       ELSE LET status == FindUser(t.s).status
            IN  IF status.tag = "naming_goal"
                THEN Done(t, NameGoalCalls(t.s, t.txt), NameGoalSay(t.txt))
                ELSE IF status.tag = "logging_goal"
                THEN Done(t, LogGoalCalls(t.s, status.id, t.txt), LogGoalSay(t.txt))
                ELSE Done(t, {}, <<IdleReply(t.txt)>>)
    /\ UNCHANGED <<users, goals, nextId, now, crashed, ev>>

\* receivedMessage(event) with message.text
ReceiveText(s, text) ==
    /\ ~crashed
    /\ ev' = Event("text", s, 0, text)
    /\ last' = [Task("recv_text", s) EXCEPT !.txt = text]
    /\ pending' = pending (+) SetToBag(
           {Task("rm_findUser", s)} \cup
           (IF Len(text) > 0
            THEN {[Task("txt_findUser", s) EXCEPT !.txt = toLowerCase(text)]}
            ELSE {}))
    /\ UNCHANGED <<users, goals, nextId, now, crashed>>

(***************************************************************************)
(* receivedMessage: quick replies.                                         *)
(***************************************************************************)
\* models.User.update(..., {$set: {status: 'logging_goal' + id}})
prog_setStatus(t) ==
    /\ Ready(t) /\ t.pc = "prog_setStatus"
    /\ users' = UpdateUser(t.s, "status", StatusLogging(t.id))
    /\ Done(t, {}, <<"ask_log">>)
    /\ UNCHANGED <<goals, nextId, now, crashed, ev>>

\* Goal.remove by the owner of the goal instead of by its _id
RemoveGoal_user(id) ==
    IF id \in Live
    THEN [g \in {h \in Live : goals[h].user # goals[id].user} |-> goals[g]]
    ELSE goals

\* Goal.remove({"_id": ObjectId(id)}): removing no record is no error
RemoveGoal(id) == [g \in Live \ {id} |-> goals[g]]

\* gmodels.Goal.remove of the "yes " branch
del_remove(t) ==
    /\ Ready(t) /\ t.pc = "del_remove"
    /\ goals' = RemoveGoal(t.id)
    /\ Done(t, {Task("del_findUser", t.s)}, <<>>)
    /\ UNCHANGED <<users, nextId, now, crashed, ev>>

\* models.User.findOne of the "yes " branch
del_findUser(t) ==
    /\ Ready(t) /\ t.pc = "del_findUser"
    /\ IF ~HasUser(t.s) THEN Crash(t)
       ELSE /\ Done(t, {[Task("del_update", t.s) EXCEPT
                            !.n = FindUser(t.s).numGoals - 1]}, <<>>)
            /\ UNCHANGED <<users, goals, nextId, now, crashed, ev>>

\* models.User.update(..., {$set: {numGoals: result.numGoals - 1}})
del_update(t) ==
    /\ Ready(t) /\ t.pc = "del_update"
    /\ users' = UpdateUser(t.s, "numGoals", t.n)
    /\ Done(t, {}, <<"goal_deleted", "home">>)
    /\ UNCHANGED <<goals, nextId, now, crashed, ev>>

\* gmodels.Goal.findOne of the "yef " branch
fin_findGoal(t) ==
    /\ Ready(t) /\ t.pc = "fin_findGoal"
    /\ Done(t, {IF t.id \in Live
                THEN [TaskG("fin_findUser", t.s, t.id) EXCEPT
                         !.txt = goals[t.id].name, !.tot = goals[t.id].total]
                ELSE [TaskG("fin_findUser", t.s, t.id) EXCEPT !.ok = FALSE]}, <<>>)
    /\ UNCHANGED <<users, goals, nextId, now, crashed, ev>>

\* models.User.findOne of the "yef " branch; oldFin.unshift(goal.name + total)
fin_findUser(t) ==
    /\ Ready(t) /\ t.pc = "fin_findUser"
    /\ IF ~HasUser(t.s) \/ ~t.ok THEN Crash(t)
       ELSE /\ Done(t, {[t EXCEPT !.pc = "fin_updateLog"]}, <<>>)
            /\ UNCHANGED <<users, goals, nextId, now, crashed, ev>>

\* models.User.update({"_id": ObjectId(id)}, {$set: {log: oldFin}}): id is the
\* goal's id, which is the _id of no User record
fin_updateLog(t) ==
    /\ Ready(t) /\ t.pc = "fin_updateLog"
    /\ Done(t, {[t EXCEPT !.pc = "fin_remove"]}, <<>>)
    /\ UNCHANGED <<users, goals, nextId, now, crashed, ev>>

\* gmodels.Goal.remove of the "yef " branch
fin_remove(t) ==
    /\ Ready(t) /\ t.pc = "fin_remove"
    /\ goals' = RemoveGoal(t.id)
    /\ Done(t, {[t EXCEPT !.pc = "fin_findUser2"]}, <<>>)
    /\ UNCHANGED <<users, nextId, now, crashed, ev>>

\* the second models.User.findOne of the "yef " branch
fin_findUser2(t) ==
    /\ Ready(t) /\ t.pc = "fin_findUser2"
    /\ IF ~HasUser(t.s) THEN Crash(t)
       ELSE /\ Done(t, {[t EXCEPT !.pc = "fin_update",
                                  !.n = FindUser(t.s).numGoals - 1]}, <<>>)
            /\ UNCHANGED <<users, goals, nextId, now, crashed, ev>>

\* models.User.update(..., {$set: {numGoals: result.numGoals - 1}})
fin_update(t) ==
    /\ Ready(t) /\ t.pc = "fin_update"
    /\ users' = UpdateUser(t.s, "numGoals", t.n)
    /\ Done(t, {}, <<"congrats", "home">>)
    /\ UNCHANGED <<goals, nextId, now, crashed, ev>>

\* callSendAPI(messageData): the request issued, to recipientId, of a reply
Send(recipientId, reply) == [Task("api_send", recipientId) EXCEPT !.ty = reply]

\* the payload "no  " is taken for the confirming one
QuickReplyCalls_yn(s, tag, id) ==
    IF tag = "prog" THEN {StreakProcess(id, "prog", s), TaskG("prog_setStatus", s, id)}
    ELSE IF tag = "yes " \/ tag = "no  " THEN {TaskG("del_remove", s, id)}
    ELSE IF tag = "yef " THEN {TaskG("fin_findGoal", s, id)}
    ELSE {}

\* The calls the quick-reply branch of receivedMessage issues for a payload.
QuickReplyCalls(s, tag, id) ==
    IF tag = "prog" THEN {StreakProcess(id, "prog", s), TaskG("prog_setStatus", s, id)}
    ELSE IF tag = "no  " THEN {Send(s, "delete_canceled"), Send(s, "home")}
    ELSE IF tag = "nf  " THEN {Send(s, "finish_canceled"), Send(s, "home")}
    ELSE IF tag = "yes " THEN {TaskG("del_remove", s, id)}
    ELSE IF tag = "yef " THEN {TaskG("fin_findGoal", s, id)}
    ELSE IF tag = "home" THEN {Send(s, "home")}
    ELSE {}

\* receivedMessage(event) with message.quick_reply
ReceiveQuickReply(s, tag, id) ==
    /\ ~crashed
    /\ ev' = Event(tag, s, id, <<>>)
    /\ last' = [TaskG("recv_quick", s, id) EXCEPT !.ty = tag]
    /\ pending' = pending (+) SetToBag({Task("rm_findUser", s)} \cup
                                       QuickReplyCalls(s, tag, id))
    /\ UNCHANGED <<users, goals, nextId, now, crashed>>

(***************************************************************************)
(* receivedPostback: getList and makeGoal.                                 *)
(***************************************************************************)
\* gmodels.Goal.find({user: {$in: [senderID]}}) of getList; "Update streaks"
gl_find(t) ==
    /\ Ready(t) /\ t.pc = "gl_find"
    /\ IF GoalsOf(t.s) = {}
       THEN Done(t, {}, <<"no_goals", "home">>)
       ELSE Done(t, {StreakProcess(g, "view", t.s) : g \in GoalsOf(t.s)}
                    \cup {[Task("gl_timer", t.s) EXCEPT !.ty = t.ty]}, <<>>)
    /\ UNCHANGED <<users, goals, nextId, now, crashed, ev>>

\* setTimeout(..., 1500) of getList: "send list again"
gl_timer(t) ==
    /\ Ready(t) /\ t.pc = "gl_timer"
    /\ Done(t, {[t EXCEPT !.pc = "gl_find2"]}, <<>>)
    /\ UNCHANGED <<users, goals, nextId, now, crashed, ev>>

RECURSIVE Ascending(_)
Ascending(S) ==
    IF S = {} THEN <<>>
    ELSE LET m == CHOOSE x \in S : \A y \in S : x <= y
         IN  <<m>> \o Ascending(S \ {m})

\* what sendList shows of the goals found: name and streak of each
Listing(s) ==
    LET ids == Ascending(GoalsOf(s))
    IN  [i \in 1 .. Len(ids) |->
            [id |-> ids[i], name |-> goals[ids[i]].name, streak |-> goals[ids[i]].streak]]

\* the second gmodels.Goal.find of getList, then sendList
gl_find2(t) ==
    /\ Ready(t) /\ t.pc = "gl_find2"
    /\ IF GoalsOf(t.s) = {}
       THEN Done(t, {}, <<"no_goals", "home">>)
       ELSE Done(t, {[t EXCEPT !.pc = "sl_findUser", !.lst = Listing(t.s)]}, <<>>)
    /\ UNCHANGED <<users, goals, nextId, now, crashed, ev>>

\* models.User.findOne of sendList, then callSendAPI with the list
sl_findUser(t) ==
    /\ Ready(t) /\ t.pc = "sl_findUser"
    /\ IF t.ty = "view" /\ ~HasUser(t.s) THEN Crash(t)
       ELSE /\ Done(t, {}, <<"list">>)
            /\ UNCHANGED <<users, goals, nextId, now, crashed, ev>>

\* receivedPostback(event): the call issued for a payload
PostbackCalls(s, payload) ==
    IF payload = "Payload new goal" THEN {Task("mg_find", s)}
    ELSE IF payload = "Payload view" THEN {[Task("gl_find", s) EXCEPT !.ty = "view"]}
    ELSE IF payload = "Payload progress" THEN {[Task("gl_find", s) EXCEPT !.ty = "prog"]}
    ELSE {}

ReceivePostback(s, payload) ==
    /\ ~crashed
    /\ ev' = Event(payload, s, 0, <<>>)
    /\ last' = [Task("recv_postback", s) EXCEPT !.ty = payload]
    /\ pending' = pending (+) SetToBag(PostbackCalls(s, payload))
    /\ UNCHANGED <<users, goals, nextId, now, crashed>>

(***************************************************************************)
(* Confirmation prompts and the Send API.  The replies of the handlers     *)
(* above are recorded in say when they are sent; for the handlers that     *)
(* write nothing to the store the request to the Send API is a pending     *)
(* call of its own, which succeeds or fails.                               *)
(***************************************************************************)
\* gmodels.Goal.findOne of sendConfirm and of sendConfirmFinish
sc_find(t) ==
    /\ Ready(t) /\ t.pc = "sc_find"
    /\ IF t.id \notin Live THEN Crash(t)
       ELSE /\ Done(t, {Send(t.s, IF t.ty = "dele" THEN "confirm_delete"
                                  ELSE "confirm_finish")}, <<>>)
            /\ UNCHANGED <<users, goals, nextId, now, crashed, ev>>

\* receivedPostback: the payloads "dele <id>", "finish <id>" and "logs <id>"
GoalPostbackCalls(s, tag, id) ==
    IF tag \in {"dele", "finish"}
    THEN {[TaskG("sc_find", s, id) EXCEPT !.ty = tag]}
    ELSE IF tag = "logs" THEN {[TaskG("vl_find", s, id) EXCEPT !.n = 0]}
    ELSE {}

ReceiveGoalPostback(s, tag, id) ==
    /\ ~crashed
    /\ ev' = Event(tag, s, id, <<>>)
    /\ last' = [TaskG("recv_postback", s, id) EXCEPT !.ty = tag]
    /\ pending' = pending (+) SetToBag(GoalPostbackCalls(s, tag, id))
    /\ UNCHANGED <<users, goals, nextId, now, crashed>>

\* What the request of callSendAPI ends with: status 200, another status, or
\* an error with no response.
Outcomes == {"ok", "status", "error"}

\* sendHome(recipientId) of the else branch of callSendAPI: a new request,
\* to the undefined recipient (0); n tells it from the request that failed
\* (the number of the attempt, modulo 2)
Resend(t) == [Send(0, "home") EXCEPT !.n = (t.n + 1) % 2]

\* the callback of request in callSendAPI.  In the else branch recipientId
\* is undefined (0): sendHome(recipientId) issues a request to it; with no
\* response, response.statusCode then throws.
callSendAPI(t, outcome) ==
    /\ Ready(t) /\ t.pc = "api_send"
    /\ IF outcome = "error" THEN Crash(t)
       ELSE /\ pending' = (pending (-) SetToBag({t})) (+)
                             SetToBag(IF outcome = "ok" THEN {} ELSE {Resend(t)})
            /\ last' = [t EXCEPT !.ok = (outcome = "ok"),
                                 !.say = IF outcome = "ok" THEN <<t.ty>> ELSE <<>>]
            /\ UNCHANGED <<users, goals, nextId, now, crashed, ev>>

(***************************************************************************)
(* View goal logs: viewLogs.  index counts from 0 as in the code; the log  *)
(* is a sequence, whose entry of index i is log[i + 1].                    *)
(***************************************************************************)
PageSize == 5

Min(a, b) == IF a <= b THEN a ELSE b

\* the entries the loop of viewLogs appends to the message
ViewLogsShown(goal, index) ==
    [i \in 1 .. (Min(Len(goal.log), index + PageSize) - index) |-> goal.log[index + i]]

QuickReply(title, tag, index) == [title |-> title, tag |-> tag, n |-> index]

\* "View Next Logs" is offered up to the end of the log included
ViewLogsReplies_le(goal, index) ==
    (IF index - PageSize >= 0
     THEN <<QuickReply("View Previous Logs", "logs", index - PageSize)>> ELSE <<>>)
    \o (IF index + PageSize <= Len(goal.log)
        THEN <<QuickReply("View Next Logs", "logs", index + PageSize)>> ELSE <<>>)
    \o <<QuickReply("Home", "home", 0)>>

\* the quick replies of the message of viewLogs, in the order of the array
ViewLogsReplies(goal, index) ==
    (IF index - PageSize >= 0
     THEN <<QuickReply("View Previous Logs", "logs", index - PageSize)>> ELSE <<>>)
    \o (IF index + PageSize < Len(goal.log)
        THEN <<QuickReply("View Next Logs", "logs", index + PageSize)>> ELSE <<>>)
    \o <<QuickReply("Home", "home", 0)>>

\* gmodels.Goal.findOne of the logs branches, then viewLogs(senderID, result, index):
\* lst is the entries shown, say the quick replies offered
vl_find(t) ==
    /\ Ready(t) /\ t.pc = "vl_find"
    /\ IF t.id \notin Live THEN Crash(t)
       ELSE /\ pending' = pending (-) SetToBag({t})
            /\ last' = [t EXCEPT !.lst = ViewLogsShown(goals[t.id], t.n),
                                 !.say = ViewLogsReplies(goals[t.id], t.n)]
            /\ UNCHANGED <<users, goals, nextId, now, crashed, ev>>

\* receivedMessage(event) with the quick reply "logs<index>!<id>"
ReceiveLogsReply(s, index, id) ==
    /\ ~crashed
    /\ ev' = Event("logs", s, id, <<>>)
    /\ last' = [TaskG("recv_quick", s, id) EXCEPT !.ty = "logs", !.n = index]
    /\ pending' = pending (+) SetToBag({Task("rm_findUser", s),
                                        [TaskG("vl_find", s, id) EXCEPT !.n = index]})
    /\ UNCHANGED <<users, goals, nextId, now, crashed>>

(***************************************************************************)
(* The environment: time passes between bursts of events.                  *)
(***************************************************************************)
Advance(k) ==
    /\ ~crashed /\ Quiescent
    /\ now' = now + k
    /\ last' = Task("advance", 0)
    /\ UNCHANGED <<users, goals, nextId, pending, crashed, ev>>

(***************************************************************************)
(* How much the environment sends: the bounds of a run.  Events are        *)
(* delivered one at a time: an event is received when no call is pending.  *)
(* The calls of one event still complete in any order.                     *)
(***************************************************************************)
Status(s) == IF HasUser(s) THEN FindUser(s).status ELSE StatusNull

\* a text may be taken as a goal name
NameRoom(s) ==
    Status(s).tag = "naming_goal" =>
        /\ nextId <= MaxGoalIds
        /\ FindUser(s).numGoals < MaxCount

\* a text may be taken as a log of the goal
LogRoom(s) ==
    LET id == Status(s).id
    IN  id \in Live => Len(goals[id].log) < MaxLog

ProgRoom(id) == id \in Live => goals[id].total < MaxTotal

DebtRoom(s) == HasUser(s) => FindUser(s).numGoals > -MaxDebt

Texts == {<<"a">>}

ListPayloads == {"Payload view", "Payload progress"}

(***************************************************************************)
(* Spec: events of every kind on the goals of one name.                    *)
(***************************************************************************)
Init ==
    /\ users = [s \in Senders |-> <<>>]
    /\ goals = <<>>
    /\ nextId = 1
    /\ pending = EmptyBag
    /\ now = 0
    /\ crashed = FALSE
    /\ last = NoTask
    /\ ev = NoEvent

Next ==
    \/ \E s \in Senders, text \in Texts :
          Quiescent /\ NameRoom(s) /\ LogRoom(s) /\ ReceiveText(s, text)
    \/ \E s \in Senders, id \in GoalIds :
          Quiescent /\ ProgRoom(id) /\ ReceiveQuickReply(s, "prog", id)
    \/ \E s \in Senders, id \in GoalIds, tag \in {"yes ", "yef "} :
          Quiescent /\ DebtRoom(s) /\ ReceiveQuickReply(s, tag, id)
    \/ \E s \in Senders, payload \in {"Payload new goal"} \cup ListPayloads :
          Quiescent /\ HasUser(s) /\ ReceivePostback(s, payload)
    \/ \E k \in {1, 2} : now + k <= MaxTick /\ Advance(k)
    \/ \E t \in BagToSet(pending) : rm_findUser(t)
    \/ \E t \in BagToSet(pending) : rm_saveUser(t)
    \/ \E t \in BagToSet(pending) : txt_findUser(t)
    \/ \E t \in BagToSet(pending) : prog_setStatus(t)
    \/ \E t \in BagToSet(pending) : mg_find(t)
    \/ \E t \in BagToSet(pending) : mg_update(t)
    \/ \E t \in BagToSet(pending) : ng_findGoal(t)
    \/ \E t \in BagToSet(pending) : ng_save(t)
    \/ \E t \in BagToSet(pending) : ng_setStatus(t)
    \/ \E t \in BagToSet(pending) : ng_findUser(t)
    \/ \E t \in BagToSet(pending) : ng_updateCount(t)
    \/ \E t \in BagToSet(pending) : sp_find(t)
    \/ \E t \in BagToSet(pending) : sp_setStreak(t)
    \/ \E t \in BagToSet(pending) : sp_setAll(t)
    \/ \E t \in BagToSet(pending) : gl_find(t)
    \/ \E t \in BagToSet(pending) : gl_timer(t)
    \/ \E t \in BagToSet(pending) : gl_find2(t)
    \/ \E t \in BagToSet(pending) : sl_findUser(t)
    \/ \E t \in BagToSet(pending) : lg_find(t)
    \/ \E t \in BagToSet(pending) : lg_update(t)
    \/ \E t \in BagToSet(pending) : lg_setStatus(t)
    \/ \E t \in BagToSet(pending) : del_remove(t)
    \/ \E t \in BagToSet(pending) : del_findUser(t)
    \/ \E t \in BagToSet(pending) : del_update(t)
    \/ \E t \in BagToSet(pending) : fin_findGoal(t)
    \/ \E t \in BagToSet(pending) : fin_findUser(t)
    \/ \E t \in BagToSet(pending) : fin_updateLog(t)
    \/ \E t \in BagToSet(pending) : fin_remove(t)
    \/ \E t \in BagToSet(pending) : fin_findUser2(t)
    \/ \E t \in BagToSet(pending) : fin_update(t)

Spec == Init /\ [][Next]_vars

(***************************************************************************)
(* SpecStreak: one user with one goal, created at tick 0; progress and     *)
(* list events over two weeks.                                             *)
(***************************************************************************)
OneUser(n) == [s \in Senders |-> <<[NewUser EXCEPT !.numGoals = n]>>]

InitStreak ==
    /\ users = OneUser(1)
    /\ goals = (1 :> NewGoal(1, <<"A">>, 0))
    /\ nextId = 2
    /\ pending = EmptyBag
    /\ now = 0
    /\ crashed = FALSE
    /\ last = NoTask
    /\ ev = NoEvent

NextStreak ==
    \/ \E s \in Senders : Quiescent /\ ProgRoom(1) /\ ReceiveQuickReply(s, "prog", 1)
    \/ \E s \in Senders, payload \in ListPayloads :
          Quiescent /\ ReceivePostback(s, payload)
    \/ \E k \in {1, 2, 14} : now + k <= MaxStreakTick /\ Advance(k)
    \/ \E t \in BagToSet(pending) : rm_findUser(t)
    \/ \E t \in BagToSet(pending) : prog_setStatus(t)
    \/ \E t \in BagToSet(pending) : sp_find(t)
    \/ \E t \in BagToSet(pending) : sp_setStreak(t)
    \/ \E t \in BagToSet(pending) : sp_setAll(t)
    \/ \E t \in BagToSet(pending) : gl_find(t)
    \/ \E t \in BagToSet(pending) : gl_timer(t)
    \/ \E t \in BagToSet(pending) : gl_find2(t)
    \/ \E t \in BagToSet(pending) : sl_findUser(t)

SpecStreak == InitStreak /\ [][NextStreak]_vars

(***************************************************************************)
(* SpecName: one user naming and deleting goals, with names that differ in *)
(* case and names at the length limit.                                     *)
(***************************************************************************)
NameTexts ==
    {<<"a", "b">>, <<"a", "B">>, <<"b">>,
     Repeat("a", MaxNameLen), Repeat("a", MaxNameLen + 1)}

InitName ==
    /\ users = OneUser(0)
    /\ goals = <<>>
    /\ nextId = 1
    /\ pending = EmptyBag
    /\ now = 0
    /\ crashed = FALSE
    /\ last = NoTask
    /\ ev = NoEvent

NextName ==
    \/ \E s \in Senders, text \in NameTexts :
          Quiescent /\ NameRoom(s) /\ ReceiveText(s, text)
    \/ \E s \in Senders : Quiescent /\ ReceivePostback(s, "Payload new goal")
    \/ \E s \in Senders, id \in GoalIds :
          Quiescent /\ DebtRoom(s) /\ ReceiveQuickReply(s, "yes ", id)
    \/ \E t \in BagToSet(pending) : rm_findUser(t)
    \/ \E t \in BagToSet(pending) : txt_findUser(t)
    \/ \E t \in BagToSet(pending) : mg_find(t)
    \/ \E t \in BagToSet(pending) : mg_update(t)
    \/ \E t \in BagToSet(pending) : ng_findGoal(t)
    \/ \E t \in BagToSet(pending) : ng_save(t)
    \/ \E t \in BagToSet(pending) : ng_setStatus(t)
    \/ \E t \in BagToSet(pending) : ng_findUser(t)
    \/ \E t \in BagToSet(pending) : ng_updateCount(t)
    \/ \E t \in BagToSet(pending) : del_remove(t)
    \/ \E t \in BagToSet(pending) : del_findUser(t)
    \/ \E t \in BagToSet(pending) : del_update(t)

SpecName == InitName /\ [][NextName]_vars

(***************************************************************************)
(* SpecCap: one user who owns four goals and names more.                   *)
(***************************************************************************)
CapNames == <<<<"A">>, <<"B">>, <<"C">>, <<"D">>>>

CapTexts == {<<"a">>, <<"e">>, <<"f">>}

InitCap ==
    /\ users = OneUser(4)
    /\ goals = [g \in 1 .. 4 |-> NewGoal(1, CapNames[g], 0)]
    /\ nextId = 5
    /\ pending = EmptyBag
    /\ now = 0
    /\ crashed = FALSE
    /\ last = NoTask
    /\ ev = NoEvent

NextCap ==
    \/ \E s \in Senders, text \in CapTexts :
          /\ Quiescent
          /\ FindUser(s).numGoals < MaxGoals + MaxOver
          /\ ReceiveText(s, text)
    \/ \E s \in Senders : Quiescent /\ ReceivePostback(s, "Payload new goal")
    \/ \E t \in BagToSet(pending) : rm_findUser(t)
    \/ \E t \in BagToSet(pending) : txt_findUser(t)
    \/ \E t \in BagToSet(pending) : mg_find(t)
    \/ \E t \in BagToSet(pending) : mg_update(t)
    \/ \E t \in BagToSet(pending) : ng_findGoal(t)
    \/ \E t \in BagToSet(pending) : ng_save(t)
    \/ \E t \in BagToSet(pending) : ng_setStatus(t)
    \/ \E t \in BagToSet(pending) : ng_findUser(t)
    \/ \E t \in BagToSet(pending) : ng_updateCount(t)

SpecCap == InitCap /\ [][NextCap]_vars

(***************************************************************************)
(* SpecLog: one user with one goal who selects it for progress and sends   *)
(* texts: short ones, ones at the length limit of a log, and the words of  *)
(* the standard cases.                                                     *)
(***************************************************************************)
LogTexts ==
    {<<"a">>, Repeat("a", MaxLogLen), Repeat("a", MaxLogLen + 1),
     WordImage, <<"I", "m", "a", "g", "e">>, WordGeneric, WordTest}

LogEntriesRoom(s) ==
    LET id == Status(s).id
    IN  id \in Live => Len(goals[id].log) < MaxLogEntries

InitLog ==
    /\ users = OneUser(1)
    /\ goals = (1 :> NewGoal(1, <<"A">>, 0))
    /\ nextId = 2
    /\ pending = EmptyBag
    /\ now = 0
    /\ crashed = FALSE
    /\ last = NoTask
    /\ ev = NoEvent

NextLog ==
    \/ \E s \in Senders, text \in LogTexts :
          Quiescent /\ LogEntriesRoom(s) /\ ReceiveText(s, text)
    \/ \E s \in Senders : Quiescent /\ ProgRoom(1) /\ ReceiveQuickReply(s, "prog", 1)
    \/ \E k \in {2} : now + k <= MaxTick /\ Advance(k)
    \/ \E t \in BagToSet(pending) : rm_findUser(t)
    \/ \E t \in BagToSet(pending) : txt_findUser(t)
    \/ \E t \in BagToSet(pending) : prog_setStatus(t)
    \/ \E t \in BagToSet(pending) : sp_find(t)
    \/ \E t \in BagToSet(pending) : sp_setStreak(t)
    \/ \E t \in BagToSet(pending) : sp_setAll(t)
    \/ \E t \in BagToSet(pending) : lg_find(t)
    \/ \E t \in BagToSet(pending) : lg_update(t)
    \/ \E t \in BagToSet(pending) : lg_setStatus(t)

SpecLog == InitLog /\ [][NextLog]_vars

(***************************************************************************)
(* SpecFirst: messages of a sender with no User record, received while the *)
(* calls of earlier ones are still pending (concurrent or redelivered).    *)
(***************************************************************************)
FirstRoom(s) == ~HasUser(s) /\ BagCardinality(pending) <= MaxInFlight

InitFirst ==
    /\ users = [s \in Senders |-> <<>>]
    /\ goals = <<>>
    /\ nextId = 1
    /\ pending = EmptyBag
    /\ now = 0
    /\ crashed = FALSE
    /\ last = NoTask
    /\ ev = NoEvent

NextFirst ==
    \/ \E s \in Senders, text \in Texts : FirstRoom(s) /\ ReceiveText(s, text)
    \/ \E s \in Senders : FirstRoom(s) /\ ReceiveQuickReply(s, "yes ", 1)
    \/ \E t \in BagToSet(pending) : rm_findUser(t)
    \/ \E t \in BagToSet(pending) : rm_saveUser(t)
    \/ \E t \in BagToSet(pending) : txt_findUser(t)
    \/ \E t \in BagToSet(pending) : del_remove(t)
    \/ \E t \in BagToSet(pending) : del_findUser(t)
    \/ \E t \in BagToSet(pending) : del_update(t)

SpecFirst == InitFirst /\ [][NextFirst]_vars

(***************************************************************************)
(* SpecConfirm: one user with one goal; confirmation prompts, cancel and   *)
(* confirming replies, the home reply, and the Send API succeeding or not. *)
(***************************************************************************)
InitConfirm ==
    /\ users = OneUser(1)
    /\ goals = (1 :> NewGoal(1, <<"A">>, 0))
    /\ nextId = 2
    /\ pending = EmptyBag
    /\ now = 0
    /\ crashed = FALSE
    /\ last = NoTask
    /\ ev = NoEvent

NextConfirm ==
    \/ \E s \in Senders, tag \in {"dele", "finish"}, id \in GoalIds :
          Quiescent /\ ReceiveGoalPostback(s, tag, id)
    \/ \E s \in Senders, tag \in {"no  ", "nf  ", "home"}, id \in GoalIds :
          Quiescent /\ ReceiveQuickReply(s, tag, id)
    \/ \E s \in Senders, tag \in {"yes ", "yef "}, id \in GoalIds :
          Quiescent /\ DebtRoom(s) /\ ReceiveQuickReply(s, tag, id)
    \/ \E t \in BagToSet(pending), outcome \in Outcomes : callSendAPI(t, outcome)
    \/ \E t \in BagToSet(pending) : rm_findUser(t)
    \/ \E t \in BagToSet(pending) : sc_find(t)
    \/ \E t \in BagToSet(pending) : del_remove(t)
    \/ \E t \in BagToSet(pending) : del_findUser(t)
    \/ \E t \in BagToSet(pending) : del_update(t)
    \/ \E t \in BagToSet(pending) : fin_findGoal(t)
    \/ \E t \in BagToSet(pending) : fin_findUser(t)
    \/ \E t \in BagToSet(pending) : fin_updateLog(t)
    \/ \E t \in BagToSet(pending) : fin_remove(t)
    \/ \E t \in BagToSet(pending) : fin_findUser2(t)
    \/ \E t \in BagToSet(pending) : fin_update(t)

SpecConfirm == InitConfirm /\ [][NextConfirm]_vars

\* SpecConfirmLive: every store call and every request to the Send API that
\* is pending eventually completes, the request with any of its outcomes.
SpecConfirmLive ==
    /\ InitConfirm /\ [][NextConfirm]_vars
    /\ WF_vars(\E t \in BagToSet(pending), outcome \in Outcomes : callSendAPI(t, outcome))
    /\ WF_vars(\E t \in BagToSet(pending) : rm_findUser(t))
    /\ WF_vars(\E t \in BagToSet(pending) : sc_find(t))
    /\ WF_vars(\E t \in BagToSet(pending) : del_remove(t))
    /\ WF_vars(\E t \in BagToSet(pending) : del_findUser(t))
    /\ WF_vars(\E t \in BagToSet(pending) : del_update(t))
    /\ WF_vars(\E t \in BagToSet(pending) : fin_findGoal(t))
    /\ WF_vars(\E t \in BagToSet(pending) : fin_findUser(t))
    /\ WF_vars(\E t \in BagToSet(pending) : fin_updateLog(t))
    /\ WF_vars(\E t \in BagToSet(pending) : fin_remove(t))
    /\ WF_vars(\E t \in BagToSet(pending) : fin_findUser2(t))
    /\ WF_vars(\E t \in BagToSet(pending) : fin_update(t))

(***************************************************************************)
(* SpecPage: one user with one goal whose log has any length up to         *)
(* MaxPageLog; the user opens the logs of the goal and follows the quick   *)
(* replies that the last page shown offers.                                *)
(***************************************************************************)
MaxPageLog == 11

PageLog(len) == [i \in 1 .. len |-> LogEntry(0, Repeat("a", i))]

\* the quick replies of the page shown last
Offered == IF last.pc = "vl_find" /\ ~crashed THEN last.say ELSE <<>>

InitPage ==
    /\ users = OneUser(1)
    /\ \E len \in 0 .. MaxPageLog :
          goals = (1 :> [NewGoal(1, <<"A">>, 0) EXCEPT !.log = PageLog(len)])
    /\ nextId = 2
    /\ pending = EmptyBag
    /\ now = 0
    /\ crashed = FALSE
    /\ last = NoTask
    /\ ev = NoEvent

NextPage ==
    \/ \E s \in Senders, id \in GoalIds :
          Quiescent /\ ReceiveGoalPostback(s, "logs", id)
    \/ \E s \in Senders, i \in 1 .. Len(Offered) :
          Quiescent /\ Offered[i].tag = "logs"
                    /\ ReceiveLogsReply(s, Offered[i].n, last.id)
    \/ \E t \in BagToSet(pending) : rm_findUser(t)
    \/ \E t \in BagToSet(pending) : vl_find(t)

SpecPage == InitPage /\ [][NextPage]_vars

(***************************************************************************)
(* SpecIso: two users with one goal each; either user sends quick replies  *)
(* and the logs postback carrying the id of either goal.                   *)
(***************************************************************************)
TwoSenders == {1, 2}

InitIso ==
    /\ users = [s \in TwoSenders |-> <<[NewUser EXCEPT !.numGoals = 1]>>]
    /\ goals = [g \in TwoSenders |-> NewGoal(g, <<"A">>, 0)]
    /\ nextId = 3
    /\ pending = EmptyBag
    /\ now = 0
    /\ crashed = FALSE
    /\ last = NoTask
    /\ ev = NoEvent

NextIso ==
    \/ \E s \in TwoSenders, id \in TwoSenders :
          Quiescent /\ ProgRoom(id) /\ ReceiveQuickReply(s, "prog", id)
    \/ \E s \in TwoSenders, id \in TwoSenders, tag \in {"yes ", "yef "} :
          Quiescent /\ DebtRoom(s) /\ ReceiveQuickReply(s, tag, id)
    \/ \E s \in TwoSenders, id \in TwoSenders :
          Quiescent /\ ReceiveGoalPostback(s, "logs", id)
    \/ \E k \in {2} : now + k <= MaxTick /\ Advance(k)
    \/ \E t \in BagToSet(pending) : rm_findUser(t)
    \/ \E t \in BagToSet(pending) : prog_setStatus(t)
    \/ \E t \in BagToSet(pending) : sp_find(t)
    \/ \E t \in BagToSet(pending) : sp_setStreak(t)
    \/ \E t \in BagToSet(pending) : sp_setAll(t)
    \/ \E t \in BagToSet(pending) : vl_find(t)
    \/ \E t \in BagToSet(pending) : del_remove(t)
    \/ \E t \in BagToSet(pending) : del_findUser(t)
    \/ \E t \in BagToSet(pending) : del_update(t)
    \/ \E t \in BagToSet(pending) : fin_findGoal(t)
    \/ \E t \in BagToSet(pending) : fin_findUser(t)
    \/ \E t \in BagToSet(pending) : fin_updateLog(t)
    \/ \E t \in BagToSet(pending) : fin_remove(t)
    \/ \E t \in BagToSet(pending) : fin_findUser2(t)
    \/ \E t \in BagToSet(pending) : fin_update(t)

SpecIso == InitIso /\ [][NextIso]_vars

(***************************************************************************)
(* SpecRace: one user with one goal; Progress events received while the    *)
(* calls of earlier ones are still pending.                                *)
(***************************************************************************)
RaceRoom == BagCardinality(pending) <= MaxInFlight

InitRace ==
    /\ users = OneUser(1)
    /\ goals = (1 :> NewGoal(1, <<"A">>, 0))
    /\ nextId = 2
    /\ pending = EmptyBag
    /\ now = 0
    /\ crashed = FALSE
    /\ last = NoTask
    /\ ev = NoEvent

NextRace ==
    \/ \E s \in Senders : RaceRoom /\ ProgRoom(1) /\ ReceiveQuickReply(s, "prog", 1)
    \/ \E k \in {2} : now + k <= MaxTick /\ Advance(k)
    \/ \E t \in BagToSet(pending) : rm_findUser(t)
    \/ \E t \in BagToSet(pending) : prog_setStatus(t)
    \/ \E t \in BagToSet(pending) : sp_find(t)
    \/ \E t \in BagToSet(pending) : sp_setStreak(t)
    \/ \E t \in BagToSet(pending) : sp_setAll(t)

SpecRace == InitRace /\ [][NextRace]_vars

(***************************************************************************)
(* SpecNameRace: one user in mode NamingGoal; naming texts received while  *)
(* the calls of earlier ones are still pending.                            *)
(***************************************************************************)
RaceTexts == {<<"a">>, <<"A">>}

InitNameRace ==
    /\ users = [s \in Senders |-> <<[NewUser EXCEPT !.status = StatusNaming]>>]
    /\ goals = <<>>
    /\ nextId = 1
    /\ pending = EmptyBag
    /\ now = 0
    /\ crashed = FALSE
    /\ last = NoTask
    /\ ev = NoEvent

NextNameRace ==
    \/ \E s \in Senders, text \in RaceTexts :
          RaceRoom /\ NameRoom(s) /\ ReceiveText(s, text)
    \/ \E t \in BagToSet(pending) : rm_findUser(t)
    \/ \E t \in BagToSet(pending) : txt_findUser(t)
    \/ \E t \in BagToSet(pending) : ng_findGoal(t)
    \/ \E t \in BagToSet(pending) : ng_save(t)
    \/ \E t \in BagToSet(pending) : ng_setStatus(t)
    \/ \E t \in BagToSet(pending) : ng_findUser(t)
    \/ \E t \in BagToSet(pending) : ng_updateCount(t)

SpecNameRace == InitNameRace /\ [][NextNameRace]_vars

(***************************************************************************)
(* Properties.  An event is done when no call is pending and no callback   *)
(* threw; ev holds the event and the store as it was when it was received. *)
(***************************************************************************)
EventDone == Quiescent /\ ~crashed

\* the Progress event (streakProcess with type "prog") on a goal live before and after
ProgressDone == EventDone /\ ev.kind = "prog" /\ ev.id \in DOMAIN ev.goals0 /\ ev.id \in Live

\* the View events (streakProcess with type "view" on every goal, by getList)
ViewDone == EventDone /\ ev.kind \in ListPayloads

\* lastUpdate in milliseconds: nameGoal stores seconds, streakProcess milliseconds
LastUpdateMs(g) ==
    IF g.lastUpdate < EpochHours * 1000 THEN g.lastUpdate * 1000 ELSE g.lastUpdate

\* hours from the goal's last update to tick t
ElapsedHours(g, t) == (getTime(t) - LastUpdateMs(g)) \div 1000

\* calendar days from the goal's last update to tick t
DayGap(g, t) == getDate(t) - ((LastUpdateMs(g) \div 1000) \div 24)

DayDelta(g, t) == getDay(t) - g.lastDay

ExtendCase(g, t) == DayDelta(g, t) \in {1, -6} /\ ElapsedHours(g, t) < 48

ResetCase(g, t) == DayGap(g, t) >= 2 \/ ElapsedHours(g, t) > 48

Before(g) == ev.goals0[g]

\* C1: every live Goal has streak >= 0 and total >= 0, in every reachable
\* state, after any sequence of events.
C1_NonNegative == \A g \in Live : goals[g].streak >= 0 /\ goals[g].total >= 0

\* a goal with a streak of two days after two progress events, viewed or not
C1_Witness == \E g \in Live : goals[g].streak = 2 /\ goals[g].total = 2

\* C2: extend rule: when dayDelta is +1 or -6 and less than 48 hours have
\* elapsed, a Progress event sets the streak to the old streak + 1 and a View
\* event leaves the streak unchanged.
C2_Extend ==
    /\ ProgressDone /\ ExtendCase(Before(ev.id), ev.t)
           => goals[ev.id].streak = Before(ev.id).streak + 1
    /\ ViewDone =>
           \A g \in DOMAIN ev.goals0 :
               ExtendCase(Before(g), ev.t) =>
                   g \in Live /\ goals[g].streak = Before(g).streak

\* a Progress event of the next day has extended a streak of at least 1
C2_Witness ==
    /\ ProgressDone /\ ExtendCase(Before(ev.id), ev.t)
    /\ Before(ev.id).streak >= 1
    /\ goals[ev.id].streak = Before(ev.id).streak + 1

\* C3: hold rule: when dayDelta is 0, a Progress event sets the streak to
\* max(1, old streak) and a View event never lowers the streak.
C3_Hold ==
    /\ ProgressDone /\ DayDelta(Before(ev.id), ev.t) = 0
           => goals[ev.id].streak = Max(1, Before(ev.id).streak)
    /\ ViewDone =>
           \A g \in DOMAIN ev.goals0 :
               DayDelta(Before(g), ev.t) = 0 =>
                   g \in Live /\ goals[g].streak >= Before(g).streak

\* a same-day Progress event has taken a streak of 0 to 1
C3_Witness ==
    /\ ProgressDone /\ DayDelta(Before(ev.id), ev.t) = 0
    /\ Before(ev.id).streak = 0 /\ goals[ev.id].streak = 1

\* C4: reset rule: when the last update is at least 2 calendar days back, or
\* more than 48 hours back, the new streak is 1 after a Progress event and 0
\* after a View event, whatever the old streak was.
C4_Reset ==
    /\ ProgressDone /\ ResetCase(Before(ev.id), ev.t) => goals[ev.id].streak = 1
    /\ ViewDone =>
           \A g \in DOMAIN ev.goals0 :
               ResetCase(Before(g), ev.t) => g \in Live /\ goals[g].streak = 0

\* C5: a Progress event on a live goal, handled alone, adds exactly 1 to total
\* and sets lastUpdate and lastDay to the time of the event, whichever of
\* extend, hold or reset is decided.
C5_ProgressPersists ==
    ProgressDone =>
        /\ goals[ev.id].total = Before(ev.id).total + 1
        /\ goals[ev.id].lastUpdate = getTime(ev.t)
        /\ goals[ev.id].lastDay = getDay(ev.t)

\* a Progress event three days after the one before: streak 1, total + 1
C5_Witness ==
    /\ ProgressDone /\ DayDelta(Before(ev.id), ev.t) = 3
    /\ Before(ev.id).total >= 1
    /\ goals[ev.id].streak = 1
    /\ goals[ev.id].total = Before(ev.id).total + 1

\* C6: a View event never changes total, lastUpdate, lastDay or log of a goal,
\* and changes its streak only when the decision is reset, to 0.
C6_ViewFrame ==
    ViewDone =>
        \A g \in DOMAIN ev.goals0 :
            /\ g \in Live
            /\ goals[g] = [Before(g) EXCEPT
                              !.streak = IF streak(Before(g), ev.t) = "reset"
                                         THEN 0 ELSE @]

\* a View event has taken a streak of at least 1 to 0
C6_Witness ==
    /\ ViewDone
    /\ \E g \in DOMAIN ev.goals0 : Before(g).streak >= 1 /\ goals[g].streak = 0

\* C7: a User owns at most 5 live Goals in every reachable state.
C7_AtMostFive == \A s \in Senders : Cardinality(GoalsOf(s)) <= MaxGoals

\* C8: the user's goalCount (numGoals) is at least 0 and at most 5 in every
\* reachable state.
C8_CountInRange ==
    \A s \in Senders : \A i \in 1 .. Len(users[s]) :
        users[s][i].numGoals >= 0 /\ users[s][i].numGoals <= MaxGoals

\* the naming text of ev, as nameGoal sees it
NamingText == Capitalize(toLowerCase(ev.txt))

NamingDone ==
    /\ EventDone /\ ev.kind = "text" /\ Len(ev.txt) > 0
    /\ ev.users0[ev.s] # <<>> /\ ev.users0[ev.s][1].status = StatusNaming

NamingRejected ==
    \/ Len(NamingText) > MaxNameLen
    \/ \E g \in DOMAIN ev.goals0 :
           Before(g).user = ev.s /\ Before(g).name = NamingText

\* C9: a naming text rejected by validation (name longer than 100 characters,
\* or a Goal of that normalized name already owned) causes no mutation: no
\* Goal is created, goalCount is unchanged and the mode stays NamingGoal.
C9_RejectedNoMutation ==
    NamingDone /\ NamingRejected => goals = ev.goals0 /\ users = ev.users0

\* two names are the same but for letter case
SameName(a, b) ==
    /\ Len(a) = Len(b)
    /\ \A i \in 1 .. Len(a) : toLowerCaseChar(a[i]) = toLowerCaseChar(b[i])

\* C10: events handled one at a time leave no two live Goals of one owner
\* with the same normalized name.
C10_UniqueNames ==
    \A g \in Live : \A h \in Live :
        g # h /\ goals[g].user = goals[h].user
            => ~SameName(goals[g].name, goals[h].name)

\* a naming text that differs from the name of a goal only in case created
\* no second Goal
C10_Witness ==
    /\ NamingDone
    /\ \E g \in DOMAIN ev.goals0 :
           /\ Before(g).user = ev.s
           /\ SameName(Before(g).name, ev.txt)
           /\ Before(g).name # ev.txt
           /\ toLowerCase(ev.txt) # ev.txt
    /\ goals = ev.goals0

\* the user record of the sender of ev, when ev was received and now
UserBefore == ev.users0[ev.s][1]
UserNow == users[ev.s][1]

\* the goals created since ev was received
Created == Live \ DOMAIN ev.goals0

\* C11: a valid naming text received in mode NamingGoal creates exactly one
\* Goal of the sender with streak 0, total 0 and an empty log, adds exactly 1
\* to goalCount and leaves the user in mode Idle.
C11_ValidNaming ==
    NamingDone /\ ~NamingRejected =>
        /\ Cardinality(Created) = 1
        /\ \A g \in DOMAIN ev.goals0 : g \in Live /\ goals[g] = Before(g)
        /\ \A g \in Created :
               /\ goals[g].user = ev.s /\ goals[g].name = NamingText
               /\ goals[g].streak = 0 /\ goals[g].total = 0 /\ goals[g].log = <<>>
        /\ UserNow.numGoals = UserBefore.numGoals + 1
        /\ UserNow.status = StatusNull

\* a second goal has been named, the first one still live
C11_Witness ==
    /\ NamingDone /\ ~NamingRejected
    /\ DOMAIN ev.goals0 # {} /\ Cardinality(Created) = 1
    /\ UserNow.numGoals = UserBefore.numGoals + 1

\* the "Payload new goal" postback of a user with a record, handled
NewGoalDone ==
    EventDone /\ ev.kind = "Payload new goal" /\ ev.users0[ev.s] # <<>>

\* C12: on a "Payload new goal" postback the mode becomes NamingGoal if and
\* only if goalCount < 5; otherwise the request is rejected and nothing is
\* written to the store.
C12_NewGoalGuard ==
    NewGoalDone =>
        IF UserBefore.numGoals < MaxGoals
        THEN UserNow.status = StatusNaming
        ELSE users = ev.users0 /\ goals = ev.goals0

\* C13: selecting a goal for progress ("prog <id>") runs the Streak Engine in
\* View mode, so total, lastUpdate and lastDay of the goal are unchanged by
\* the event, and sets the user's mode to LoggingProgress of the goal.
C13_SelectIsView ==
    ProgressDone =>
        /\ goals[ev.id].total = Before(ev.id).total
        /\ goals[ev.id].lastUpdate = Before(ev.id).lastUpdate
        /\ goals[ev.id].lastDay = Before(ev.id).lastDay
        /\ UserNow.status = StatusLogging(ev.id)

\* a text of a user in mode LoggingProgress of a live goal, handled
LogTextDone ==
    /\ EventDone /\ ev.kind = "text" /\ Len(ev.txt) > 0
    /\ ev.users0[ev.s] # <<>> /\ UserBefore.status.tag = "logging_goal"
    /\ UserBefore.status.id \in DOMAIN ev.goals0

\* the goal the sender of ev was logging progress of
LoggedGoal == UserBefore.status.id

\* C14: a text of at most 96 characters from a user in mode LoggingProgress(X)
\* runs the Streak Engine in Progress mode for X (total + 1, timestamps set
\* to now), prepends exactly one entry to the log of X and sets the mode to
\* Idle.
C14_LogIsProgress ==
    LogTextDone /\ Len(ev.txt) <= MaxLogLen =>
        /\ LoggedGoal \in Live
        /\ goals[LoggedGoal].total = Before(LoggedGoal).total + 1
        /\ goals[LoggedGoal].lastUpdate = getTime(ev.t)
        /\ goals[LoggedGoal].lastDay = getDay(ev.t)
        /\ Len(goals[LoggedGoal].log) = Len(Before(LoggedGoal).log) + 1
        /\ Tail(goals[LoggedGoal].log) = Before(LoggedGoal).log
        /\ UserNow.status = StatusNull

\* C15: a log text longer than 96 characters from a user in mode
\* LoggingProgress(X) changes no state; a text of at most 96 characters, one
\* of exactly 96 included, is accepted: it is put at the head of the log.
C15_LongLogRejected ==
    LogTextDone =>
        IF Len(ev.txt) > MaxLogLen
        THEN goals = ev.goals0 /\ users = ev.users0
        ELSE /\ LoggedGoal \in Live
             /\ goals[LoggedGoal].log =
                    <<LogEntry(ev.t, toLowerCase(ev.txt))>> \o Before(LoggedGoal).log

\* a text of 97 characters was rejected after one of 96 had been accepted
C15_Witness ==
    /\ LogTextDone /\ Len(ev.txt) = MaxLogLen + 1
    /\ Before(LoggedGoal).log # <<>>
    /\ Len(Before(LoggedGoal).log[1].text) = MaxLogLen
    /\ goals = ev.goals0 /\ users = ev.users0

\* a delete confirmation ("yes  <id>") of a user with a record
DeleteOf == ev.kind = "yes " /\ ev.users0[ev.s] # <<>>

\* C16: a delete confirmation for a live goal X of the sender removes X from
\* the live Goals, takes exactly 1 off the sender's goalCount and leaves every
\* other Goal unchanged.
C16_DeleteLive ==
    EventDone /\ DeleteOf /\ ev.id \in DOMAIN ev.goals0 /\ Before(ev.id).user = ev.s =>
        /\ goals = [g \in DOMAIN ev.goals0 \ {ev.id} |-> Before(g)]
        /\ UserNow.numGoals = UserBefore.numGoals - 1

\* one of two live goals has been deleted
C16_Witness ==
    /\ EventDone /\ DeleteOf /\ ev.id \in DOMAIN ev.goals0
    /\ Cardinality(DOMAIN ev.goals0) = 2 /\ Cardinality(Live) = 1
    /\ UserNow.numGoals = UserBefore.numGoals - 1

\* C17: a delete confirmation for a goal id already deleted raises no fatal
\* error and leaves the store unchanged: goalCount is not decremented again.
C17_DeleteTwiceNoOp ==
    DeleteOf /\ ev.id \notin DOMAIN ev.goals0 /\ ev.id < nextId =>
        /\ ~crashed
        /\ goals = ev.goals0
        /\ users = ev.users0

\* C18: a finish confirmation ("yef  <id>") for a live goal X removes X from
\* the live Goals, prepends exactly one summary of X to the owner's persisted
\* finished sequence and takes exactly 1 off goalCount.
C18_FinishLive ==
    /\ EventDone /\ ev.kind = "yef " /\ ev.users0[ev.s] # <<>>
    /\ ev.id \in DOMAIN ev.goals0
    => /\ ev.id \notin Live
       /\ Len(UserNow.finished) = Len(UserBefore.finished) + 1
       /\ Tail(UserNow.finished) = UserBefore.finished
       /\ UserNow.numGoals = UserBefore.numGoals - 1

\* ev is the first message of its sender: no User record when it was received
FirstContact == ev.kind # "none" /\ ev.users0[ev.s] = <<>>

\* C19: on the first message of an unseen sender a User record with mode Idle
\* and goalCount 0 is created and the home menu is sent, before any other
\* dispatch of that event takes effect: until the record exists no callback
\* has thrown, sent a reply or written a goal, and the event is not over.
C19_CreatedFirst ==
    FirstContact =>
        /\ last.pc = "rm_saveUser" =>
               users[ev.s] = <<NewUser>> /\ last.say = <<"welcome", "home">>
        /\ ~HasUser(ev.s) =>
               ~crashed /\ ~Quiescent /\ last.say = <<>> /\ goals = ev.goals0

\* C20: under any interleaving of concurrent or redelivered messages of one
\* unseen sender id, the store holds at most one User record of that id.
C20_OneUserRecord == \A s \in Senders : Len(users[s]) <= 1

\* a goal-scoped quick reply of a user with a record, on a goal id that is
\* not live
MissingGoalAction ==
    /\ ev.kind \in {"prog", "yes ", "yef "}
    /\ ev.users0[ev.s] # <<>>
    /\ ev.id \notin DOMAIN ev.goals0

\* C21: a goal-scoped action on a goal id that no longer exists is recovered
\* locally: no callback throws and no store record is changed.
C21_MissingGoalBenign ==
    MissingGoalAction => ~crashed /\ users = ev.users0 /\ goals = ev.goals0

\* C26: streak recomputation in View mode is idempotent: after a View event
\* every goal whose decision at that time is reset has streak 0, and a View
\* event on goals that are already so changes nothing.
C26_ViewIdempotent ==
    ViewDone =>
        /\ \A g \in Live :
               streak(goals[g], ev.t) = "reset" => goals[g].streak = 0
        /\ (\A g \in DOMAIN ev.goals0 :
               streak(Before(g), ev.t) = "reset" => Before(g).streak = 0)
           => goals = ev.goals0

\* a second View event on a goal with progress whose streak the first reset
C26_Witness ==
    /\ ViewDone /\ goals = ev.goals0
    /\ \E g \in Live :
           /\ streak(goals[g], ev.t) = "reset"
           /\ goals[g].total >= 1 /\ goals[g].streak = 0

\* C27: the goal list sent for "Payload view" or "Payload progress" shows the
\* decayed streak: every goal whose View decision is reset is listed with
\* streak 0.
C27_ListShowsDecay ==
    last.pc = "sl_findUser" /\ last.say = <<"list">> /\ ev.kind \in ListPayloads =>
        \A i \in 1 .. Len(last.lst) :
            streak(Before(last.lst[i].id), ev.t) = "reset"
                => last.lst[i].streak = 0

\* C30: streak <= total is not an invariant: a live Goal has streak > total
\* in some reachable state, and only between the two writes of its first
\* Progress event when the decision is reset (streak 1, total 0, the write of
\* total still pending).
C30_StreakAboveTotal ==
    \A g \in Live :
        goals[g].streak > goals[g].total =>
            /\ goals[g].streak = 1 /\ goals[g].total = 0
            /\ \E t \in BagToSet(pending) : t.pc = "sp_setAll" /\ t.id = g

\* a live Goal with streak > total
C30_Witness == \E g \in Live : goals[g].streak > goals[g].total

\* a text of a user in mode Idle
IdleText ==
    /\ ev.kind = "text" /\ Len(ev.txt) > 0
    /\ ev.users0[ev.s] # <<>> /\ UserBefore.status = StatusNull

C22_NoSendAfterFailure ==
    \A t \in BagToSet(pending) : t.pc = "api_send" => t.s \in Senders

\* C28: the confirmation prompts ("dele", "finish") and the cancel replies
\* ("no  ", "nf  ") change nothing in the store; a Goal is deleted by the
\* confirming payloads "yes " and "yef " only.
C28_PromptsWriteNothing ==
    /\ ev.kind \in {"dele", "finish", "no  ", "nf  "}
           => goals = ev.goals0 /\ users = ev.users0
    /\ DOMAIN ev.goals0 \ Live # {} => ev.kind \in {"yes ", "yef "}

\* the cancel reply to the delete prompt of a live goal has been answered
C28_Witness ==
    /\ ev.kind = "no  " /\ ev.id \in Live /\ EventDone
    /\ last.pc = "api_send" /\ last.ok
    /\ goals = ev.goals0 /\ users = ev.users0

\* C23: the total of a live Goal never decreases from one state to the next,
\* Progress events handled concurrently included.
C23_TotalMonotone ==
    [][\A g \in Live :
          g \in DOMAIN goals' => goals'[g].total >= goals[g].total]_vars

\* C24: concurrent Progress events lose updates: the write of a Progress
\* event sets total to the value computed from the total it read, whatever
\* the stored total has become, so two events that read the same total
\* leave it grown by 1.
C24_LostUpdate ==
    [][\A t \in BagToSet(pending) :
          (/\ t.pc = "sp_setAll" /\ t.id \in Live
           /\ last' = [t EXCEPT !.say = <<>>]
           /\ pending' = pending (-) SetToBag({t}))
          => goals'[t.id].total = t.tot]_vars

\* one Progress event has written the total, and another, which read the
\* total before that write, is about to write the same value
C24_Witness ==
    \E t \in BagToSet(pending) :
        /\ t.pc = "sp_setAll" /\ t.id \in Live
        /\ last.pc = "sp_setAll" /\ last.id = t.id /\ last.tot = t.tot
        /\ goals[t.id].total = t.tot

\* C29: naming texts with the same normalized name handled concurrently for
\* one owner create at most one Goal of that name.
C29_UniqueUnderRace ==
    \A g \in Live : \A h \in Live :
        g # h /\ goals[g].user = goals[h].user => goals[g].name # goals[h].name

\* a page of logs has just been shown
PageShown == last.pc = "vl_find" /\ ~crashed /\ last.id \in Live

HasReply(replies, title, index) ==
    \E i \in 1 .. Len(replies) : replies[i] = QuickReply(title, "logs", index)

Titles(replies) == {replies[i].title : i \in 1 .. Len(replies)}

\* C31: viewLogs at offset index shows exactly the entries index ..
\* min(length, index+5)-1, offers "View Next Logs" (offset index+5) iff
\* index+5 < length and "View Previous Logs" (offset index-5) iff
\* index-5 >= 0; Next and then Previous returns to the same offset, and
\* every offered offset is within 0 .. length-1.
C31_LogPaging ==
    PageShown =>
        LET log == goals[last.id].log
            length == Len(log)
            index == last.n
            upto == Min(length, index + 5)
        IN  /\ Len(last.lst) = IF upto > index THEN upto - index ELSE 0
            /\ \A i \in index .. upto - 1 : last.lst[i - index + 1] = log[i + 1]
            /\ "View Next Logs" \in Titles(last.say) <=> index + 5 < length
            /\ "View Next Logs" \in Titles(last.say)
                  => HasReply(last.say, "View Next Logs", index + 5)
            /\ "View Previous Logs" \in Titles(last.say) <=> index - 5 >= 0
            /\ "View Previous Logs" \in Titles(last.say)
                  => HasReply(last.say, "View Previous Logs", index - 5)
            /\ \A i \in 1 .. Len(last.say) :
                  last.say[i].tag = "logs" => last.say[i].n \in 0 .. length - 1
            /\ HasReply(last.say, "View Next Logs", index + 5)
                  => HasReply(ViewLogsReplies(goals[last.id], index + 5),
                              "View Previous Logs", index)

\* the second page of a log of more than two pages, reached with Next:
\* both Next and Previous are offered
C31_Witness ==
    /\ PageShown /\ ev.kind = "logs" /\ last.n = 5
    /\ Len(goals[last.id].log) = 11 /\ Len(last.lst) = 5
    /\ HasReply(last.say, "View Next Logs", 10)
    /\ HasReply(last.say, "View Previous Logs", 0)

\* C32: in every quiescent state each User's goalCount (numGoals) equals
\* the number of live Goals the user owns.
C32_CountMatchesGoals ==
    Quiescent /\ ~crashed =>
        \A s \in Senders :
            HasUser(s) => FindUser(s).numGoals = Cardinality(GoalsOf(s))

\* C33: whenever a user's mode is LoggingProgress(X), X is the id of a live
\* Goal owned by that user.
C33_LoggingGoalLive ==
    \A s \in Senders :
        HasUser(s) /\ FindUser(s).status.tag = "logging_goal"
            => FindUser(s).status.id \in GoalsOf(s)

\* the goals a user owned when the last event was received, and owns now
OwnedBefore(s) == {g \in DOMAIN ev.goals0 : ev.goals0[g].user = s}

\* C34: an event sent by sender A never reads out, modifies or deletes a
\* Goal owned by a different user B and never changes B's User record,
\* whatever goal id its payload carries; and A's goalCount changes only on
\* account of A's own Goals.
C34_OwnerIsolation ==
    ev.kind # "none" =>
        /\ \A g \in DOMAIN ev.goals0 :
              ev.goals0[g].user # ev.s => g \in Live /\ goals[g] = ev.goals0[g]
        /\ \A s \in DOMAIN users : s # ev.s => users[s] = ev.users0[s]
        /\ PageShown => goals[last.id].user = last.s
        /\ (HasUser(ev.s) /\ ev.users0[ev.s] # <<>>
              /\ FindUser(ev.s).numGoals # ev.users0[ev.s][1].numGoals)
             => GoalsOf(ev.s) # OwnedBefore(ev.s)

\* the last event is a Progress event on the calendar day of the Progress
\* event that last updated the goal
SameDayProgress ==
    /\ ProgressDone
    /\ Before(ev.id).total >= 1
    /\ DayGap(Before(ev.id), ev.t) = 0

\* C35: a streak grows by at most 1 per calendar day: after a Progress
\* event the streak is >= 1 and at most the old streak + 1, a second
\* Progress event on the day of the previous one leaves the streak
\* unchanged, and no View event increases a streak.
C35_OneStepPerDay ==
    /\ ProgressDone => /\ goals[ev.id].streak >= 1
                       /\ goals[ev.id].streak <= Before(ev.id).streak + 1
    /\ SameDayProgress => goals[ev.id].streak = Before(ev.id).streak
    /\ ViewDone =>
           \A g \in DOMAIN ev.goals0 :
               g \in Live => goals[g].streak <= Before(g).streak

\* a streak of 1 after a second Progress event of the same day, not the
\* day the goal was named
C35_Witness ==
    /\ SameDayProgress /\ ev.t > 0
    /\ Before(ev.id).streak = 1 /\ goals[ev.id].streak = 1
    /\ goals[ev.id].total = Before(ev.id).total + 1

\* C36: the mode becomes NamingGoal or LoggingProgress(X) only from Idle: a
\* "Payload new goal" postback or a "prog <id>" action received in mode
\* NamingGoal or LoggingProgress(Y) does not overwrite the mode.
C36_ModeOnlyFromIdle ==
    (/\ EventDone /\ ev.kind \in {"Payload new goal", "prog"}
     /\ ev.users0[ev.s] # <<>> /\ HasUser(ev.s)
     /\ UserBefore.status # StatusNull)
    => UserNow.status = UserBefore.status

\* C37: the handling of every inbound event eventually quiesces: when every
\* store call and every request to the Send API eventually completes, with
\* success or with failure, a state with calls pending leads to a state
\* with none.
C37_EventQuiesces == (~Quiescent) ~> Quiescent

====
